---- MODULE Spec2Model ----
(***************************************************************************)
(* Model of the llmop-youtube userscript core: the YouTube watcher         *)
(* (URL polling, caption cache, playhead polling), the event-duration      *)
(* calculation of the Gemini client and the active-event resolver.         *)
(*                                                                         *)
(* Three specifications live in this module:                               *)
(*   Spec      the watcher and the analysis pipeline as a state machine    *)
(*             (one action per handler, timer tick or promise              *)
(*             continuation);                                              *)
(*   SpecCache the caption cache under arbitrary calls;                    *)
(*   SpecCalc  the pure functions (duration calculation, active-event      *)
(*             resolution) applied to inputs drawn from bounded sets.      *)
(***************************************************************************)
EXTENDS Integers, Sequences, FiniteSets, TLC

(***************************************************************************)
(* Bounds of the model                                                     *)
(***************************************************************************)

\* captionsCacheSize as configured (GM_getValue); any positive integer.
MAX_CACHE_SIZE == 2

\* Caption extractions that may be in flight at the same time.
MaxInFlight == 2

\* Longest event list the analysis provider returns in SpecCalc.
MaxEvents == 4

\* Number of cache calls in a behaviour of SpecCache.
MaxCacheOps == 5

(***************************************************************************)
(* Values                                                                  *)
(***************************************************************************)

\* null of a string-valued signal (video id, captions).
NULL == "null"

\* An optional number: <<>> is null / undefined, <<n>> is the number n.
None == <<>>

Some(n) == <<n>>

\* JavaScript truthiness of a string | null value.
Truthy(x) == x # NULL /\ x # ""

VideoIds == {"a", "b"}

\* Keys of the cache calls in SpecCache: one more than the cache holds.
CacheKeys == VideoIds \cup {"c", "d"}

\* The transcript the caption scraper returns for a video.
TranscriptOf(v) == "captions-" \o v

\* Pages the browser can show: the watch pages and a page without video.
Urls ==
  [host : {"www.youtube.com"}, path : {"/watch"}, v : VideoIds]
    \cup [host : {"www.youtube.com"}, path : {"/"}, v : {NULL}]

\* Values of videoElement.currentTime a poll can read; None: no video element.
Positions == {30}

ElementReads == {None} \cup {Some(p) : p \in Positions}


\* A video event as the analysis provider returns it (no duration yet).
Event(name, description, timestamp) ==
  [name |-> name, description |-> description, timestamp |-> timestamp,
   duration |-> None]

\* Event lists the analysis provider returns in Spec: none, and an unsorted
\* pair.
AnalysisResults ==
  { <<>>,
    <<Event("Second", "second point", 30), Event("Intro", "introduction", 0)>> }

(***************************************************************************)
(* State                                                                   *)
(***************************************************************************)

VARIABLES
  \* the browser
  url,                        \* window.location.href
  hidden,                     \* document.hidden
  lifecycle,                  \* "loaded", "running" (listener registered), "cleaned"
  urlTimers,                  \* live setInterval timers calling checkForUrlChange
  playheadTimers,             \* live setInterval timers calling updatePlayheadPosition
  extractions,                \* extractCaptionsForVideo calls suspended at an await
  \* youtube-watcher.ts signals
  currentVideoId,
  currentCaptions,
  currentPlayheadPosition,
  currentEvents,
  currentActiveEvent,
  \* youtube-watcher.ts module state
  captionsCache,              \* Map in insertion order: sequence of [key, value]
  lastProcessedUrl,
  urlPollingIntervalId,
  playheadPollingIntervalId,
  isPollingActive,
  isPlayheadPollingActive,
  \* app component
  processedVideoIds,
  isLoading,
  error,                      \* the error message shown, or NULL
  analyses,                   \* automatic analyses in flight
  \* history
  lastStep                    \* what the last step was, see step

watcherVars ==
  <<url, hidden, lifecycle, urlTimers, playheadTimers, extractions,
    currentVideoId, currentCaptions, currentPlayheadPosition, currentEvents,
    currentActiveEvent, captionsCache, lastProcessedUrl, urlPollingIntervalId,
    playheadPollingIntervalId, isPollingActive, isPlayheadPollingActive,
    processedVideoIds, isLoading, error, analyses, lastStep>>

\* The state as one record, so that a handler is an operator from state to state.
State ==
  [url |-> url, hidden |-> hidden, lifecycle |-> lifecycle,
   urlTimers |-> urlTimers, playheadTimers |-> playheadTimers,
   extractions |-> extractions,
   currentVideoId |-> currentVideoId, currentCaptions |-> currentCaptions,
   currentPlayheadPosition |-> currentPlayheadPosition,
   currentEvents |-> currentEvents, currentActiveEvent |-> currentActiveEvent,
   captionsCache |-> captionsCache, lastProcessedUrl |-> lastProcessedUrl,
   urlPollingIntervalId |-> urlPollingIntervalId,
   playheadPollingIntervalId |-> playheadPollingIntervalId,
   isPollingActive |-> isPollingActive,
   isPlayheadPollingActive |-> isPlayheadPollingActive,
   processedVideoIds |-> processedVideoIds, isLoading |-> isLoading,
   error |-> error, analyses |-> analyses, lastStep |-> lastStep]

Becomes(s) ==
  /\ url' = s.url
  /\ hidden' = s.hidden
  /\ lifecycle' = s.lifecycle
  /\ urlTimers' = s.urlTimers
  /\ playheadTimers' = s.playheadTimers
  /\ extractions' = s.extractions
  /\ currentVideoId' = s.currentVideoId
  /\ currentCaptions' = s.currentCaptions
  /\ currentPlayheadPosition' = s.currentPlayheadPosition
  /\ currentEvents' = s.currentEvents
  /\ currentActiveEvent' = s.currentActiveEvent
  /\ captionsCache' = s.captionsCache
  /\ lastProcessedUrl' = s.lastProcessedUrl
  /\ urlPollingIntervalId' = s.urlPollingIntervalId
  /\ playheadPollingIntervalId' = s.playheadPollingIntervalId
  /\ isPollingActive' = s.isPollingActive
  /\ isPlayheadPollingActive' = s.isPlayheadPollingActive
  /\ processedVideoIds' = s.processedVideoIds
  /\ isLoading' = s.isLoading
  /\ error' = s.error
  /\ analyses' = s.analyses
  /\ lastStep' = s.lastStep

\* A handler starts: the history names it. element is what the handler's
\* document.querySelector found, recorded for the playhead tick and for the
\* visibility listener (None: no video element, also for the other handlers);
\* urlChanged tells whether the URL differed from lastProcessedUrl when the
\* visibility listener ran; threw whether an exception left the handler.
step(s, handler, element, urlChanged) ==
  [s EXCEPT !.lastStep = [handler |-> handler, element |-> element,
                          urlChanged |-> urlChanged, threw |-> FALSE]]

(***************************************************************************)
(* Event durations (Gemini client)                                         *)
(***************************************************************************)

\* A sort that is not stable: an element goes before the elements with its
\* timestamp.
insertByTimestamp_beforeEqual(sorted, e) ==
  LET k == Cardinality({i \in DOMAIN sorted : sorted[i].timestamp < e.timestamp})
  IN SubSeq(sorted, 1, k) \o <<e>> \o SubSeq(sorted, k + 1, Len(sorted))

\* No sort at all: the array stays in the order it came in.
insertByTimestamp_append(sorted, e) == Append(sorted, e)

\* A sort of the timestamps alone: names and descriptions stay where they
\* were, so that they end up with another event's timestamp.
insertByTimestamp_keysOnly(sorted, e) ==
  LET k == Cardinality({i \in DOMAIN sorted : sorted[i].timestamp <= e.timestamp})
      placed == SubSeq(sorted, 1, k) \o <<e>> \o SubSeq(sorted, k + 1, Len(sorted))
      arrival == Append(sorted, e)
  IN [i \in DOMAIN placed |->
        [arrival[i] EXCEPT !.timestamp = placed[i].timestamp]]

\* Array.prototype.sort((a, b) => a.timestamp - b.timestamp) places an element
\* after the elements already placed whose timestamp is not greater: the sort
\* is stable.
insertByTimestamp(sorted, e) ==
  LET k == Cardinality({i \in DOMAIN sorted : sorted[i].timestamp <= e.timestamp})
  IN SubSeq(sorted, 1, k) \o <<e>> \o SubSeq(sorted, k + 1, Len(sorted))

RECURSIVE sortByTimestamp(_)
sortByTimestamp(events) ==
  IF events = <<>> THEN <<>>
  ELSE insertByTimestamp(sortByTimestamp(SubSeq(events, 1, Len(events) - 1)),
                         events[Len(events)])

\* The loop with the subtraction the wrong way round.
durationsToNext_reversed(sorted) ==
  [i \in DOMAIN sorted |->
     IF i < Len(sorted)
     THEN [sorted[i] EXCEPT
             !.duration = Some(sorted[i].timestamp - sorted[i + 1].timestamp)]
     ELSE sorted[i]]

\* The loop "for (i = 0; i < events.length - 1; i++)": every event but the last
\* gets the distance to its successor; the last one is left as it is.
durationsToNext(sorted) ==
  [i \in DOMAIN sorted |->
     IF i < Len(sorted)
     THEN [sorted[i] EXCEPT
             !.duration = Some(sorted[i + 1].timestamp - sorted[i].timestamp)]
     ELSE sorted[i]]

\* calculateEventDurations that never looks at videoDuration.
calculateEventDurations_noVideoDuration(events, videoDuration) ==
  IF Len(events) = 0 THEN events
  ELSE LET sorted == durationsToNext(sortByTimestamp(events))
       IN [sorted EXCEPT ![Len(sorted)].duration = Some(0)]

\* calculateEventDurations that never yields a negative duration.
calculateEventDurations_clamped(events, videoDuration) ==
  IF Len(events) = 0 THEN events
  ELSE LET sorted == durationsToNext(sortByTimestamp(events))
           n == Len(sorted)
       IN [sorted EXCEPT
             ![n].duration =
               IF videoDuration # None /\ videoDuration[1] >= sorted[n].timestamp
               THEN Some(videoDuration[1] - sorted[n].timestamp)
               ELSE Some(0)]

\* GeminiClient.calculateEventDurations (LangChain client): the array after the
\* call. videoDuration is None when the argument is undefined.
calculateEventDurations(events, videoDuration) ==
  IF Len(events) = 0 THEN events
  ELSE LET sorted == durationsToNext(sortByTimestamp(events))
           n == Len(sorted)
       IN [sorted EXCEPT
             ![n].duration =
               IF videoDuration # None
               THEN Some(videoDuration[1] - sorted[n].timestamp)
               ELSE Some(0)]

\* VideoEvent.calculateDurations (the VideoEvent class): the last event's
\* duration is assigned only when a video duration is given.
calculateDurations(events, videoDuration) ==
  LET sorted == durationsToNext(sortByTimestamp(events))
      n == Len(sorted)
  IN IF n > 0 /\ videoDuration # None
     THEN [sorted EXCEPT
             ![n].duration = Some(videoDuration[1] - sorted[n].timestamp)]
     ELSE sorted

(***************************************************************************)
(* Active-event resolver                                                   *)
(***************************************************************************)

\* Strict containment: an event is taken only while the position is inside
\* its window [timestamp, timestamp + duration).
RECURSIVE scanActiveEvent_contained(_, _, _, _)
scanActiveEvent_contained(events, position, i, best) ==
  IF i > Len(events) THEN best
  ELSE LET e == events[i]
           take == /\ e.timestamp <= position
                   /\ e.duration # None
                   /\ position < e.timestamp + e.duration[1]
       IN scanActiveEvent_contained(events, position, i + 1,
                                    IF take THEN Some(e) ELSE best)

\* Exclusive lower bound: an event has started only after its timestamp.
RECURSIVE scanActiveEvent_exclusive(_, _, _, _)
scanActiveEvent_exclusive(events, position, i, best) ==
  IF i > Len(events) THEN best
  ELSE LET e == events[i]
           take == /\ e.timestamp < position
                   /\ (best = None \/ e.timestamp >= best[1].timestamp)
       IN scanActiveEvent_exclusive(events, position, i + 1,
                                    IF take THEN Some(e) ELSE best)

\* One pass over the timeline in array order: an event replaces the candidate
\* when it has started (timestamp <= position) and does not start before the
\* candidate, so that of two events with one timestamp the later one wins.
RECURSIVE scanActiveEvent(_, _, _, _)
scanActiveEvent(events, position, i, best) ==
  IF i > Len(events) THEN best
  ELSE LET e == events[i]
           take == /\ e.timestamp <= position
                   /\ (best = None \/ e.timestamp >= best[1].timestamp)
       IN scanActiveEvent(events, position, i + 1, IF take THEN Some(e) ELSE best)

\* resolveActiveEvent(position) over a timeline: None, or Some(event).
resolveActiveEvent(events, position) ==
  IF position = None THEN None
  ELSE scanActiveEvent(events, position[1], 1, None)

(***************************************************************************)
(* Caption cache                                                           *)
(***************************************************************************)

cacheHas(cache, videoId) == \E i \in DOMAIN cache : cache[i].key = videoId

\* Map.set: a new key goes to the end, an existing key keeps its place.
mapSet(cache, videoId, captions) ==
  IF cacheHas(cache, videoId)
  THEN [i \in DOMAIN cache |->
          IF cache[i].key = videoId
          THEN [key |-> videoId, value |-> captions] ELSE cache[i]]
  ELSE Append(cache, [key |-> videoId, value |-> captions])

\* The first half of addToCache: at the maximum size the first key of the Map
\* (captionsCache.keys().next().value) is deleted.
evictOldest(cache) ==
  IF Len(cache) >= MAX_CACHE_SIZE /\ Len(cache) > 0 THEN Tail(cache) ELSE cache

\* addToCache with the size test "size > MAX_CACHE_SIZE".
addToCache_sizeGreater(cache, videoId, captions) ==
  mapSet(IF Len(cache) > MAX_CACHE_SIZE THEN Tail(cache) ELSE cache,
         videoId, captions)

\* addToCache: evict when at the maximum size, then set the entry.
addToCache(cache, videoId, captions) ==
  mapSet(evictOldest(cache), videoId, captions)

\* getFromCache: the cached captions, or null.
\* getFromCache that never finds an entry.
getFromCache_miss(cache, videoId) == NULL

getFromCache(cache, videoId) ==
  IF cacheHas(cache, videoId)
  THEN (CHOOSE e \in {cache[i] : i \in DOMAIN cache} : e.key = videoId).value
  ELSE NULL

\* getFromCache as a true LRU would have it: a hit moves the entry to the end.
cacheAfterGet_refresh(cache, videoId) ==
  IF cacheHas(cache, videoId)
  THEN LET i == CHOOSE j \in DOMAIN cache : cache[j].key = videoId
       IN SubSeq(cache, 1, i - 1) \o SubSeq(cache, i + 1, Len(cache)) \o <<cache[i]>>
  ELSE cache

\* The Map after getFromCache: has() and get() leave it as it is.
cacheAfterGet(cache, videoId) == cache

(***************************************************************************)
(* URL utilities                                                           *)
(***************************************************************************)

\* extractVideoId: the v parameter of a youtube.com/watch URL, the path
\* remainder of a youtu.be URL (null when empty), else null.
\* pathname.substring(1) on the paths of Urls.
substring1(path) ==
  CASE path = "/" -> ""
    [] path = "/a" -> "a"
    [] path = "/watch" -> "watch"

\* hostname.includes('youtube.com') on the hosts of the model.
includesYoutubeCom(host) == host \in {"www.youtube.com", "m.youtube.com"}

\* extractVideoId that knows watch pages only.
extractVideoId_watchOnly(u) ==
  IF includesYoutubeCom(u.host) /\ u.path = "/watch" THEN u.v ELSE NULL

extractVideoId(u) ==
  IF includesYoutubeCom(u.host) /\ u.path = "/watch" THEN u.v
  ELSE IF u.host = "youtu.be"
       THEN (IF substring1(u.path) # "" THEN substring1(u.path) ELSE NULL)
       ELSE NULL

(***************************************************************************)
(* Signals and their subscribers                                           *)
(***************************************************************************)

\* Messages of setError.
NoCaptionsError == "No captions available for this video"

AnalysisError == "Error generating video analysis"

\* The effect without its processedVideoIds test: every run of the effect on
\* a video with captions starts an analysis.
autoAnalysisEffect_noGuard(s) ==
  IF Truthy(s.currentVideoId) /\ Truthy(s.currentCaptions)
  THEN [s EXCEPT
          !.isLoading = TRUE,
          !.error = NULL,
          !.analyses = @ \cup {[videoId |-> s.currentVideoId,
                                captions |-> s.currentCaptions,
                                currentVideo |-> NULL,
                                stage |-> "context"]},
          !.processedVideoIds = @ \cup {s.currentVideoId}]
  ELSE s

\* The app's effect on (currentVideoId, currentCaptions): a video with captions
\* that was not processed yet gets an automatic analysis, which first awaits
\* the metadata and the client ("context"), and is marked processed. The UI
\* state is reset (loading, no error).
autoAnalysisEffect(s) ==
  IF /\ Truthy(s.currentVideoId)
     /\ Truthy(s.currentCaptions)
     /\ s.currentVideoId \notin s.processedVideoIds
  THEN [s EXCEPT
          !.isLoading = TRUE,
          !.error = NULL,
          !.analyses = @ \cup {[videoId |-> s.currentVideoId,
                                captions |-> s.currentCaptions,
                                currentVideo |-> NULL,
                                stage |-> "context"]},
          !.processedVideoIds = @ \cup {s.currentVideoId}]
  ELSE s

\* The derived signal currentActiveEvent follows its two sources.
recomputeActiveEvent(s) ==
  [s EXCEPT !.currentActiveEvent =
              resolveActiveEvent(s.currentEvents, s.currentPlayheadPosition)]

setCurrentVideoId(s, videoId) ==
  autoAnalysisEffect([s EXCEPT !.currentVideoId = videoId])

setCurrentCaptions(s, captions) ==
  autoAnalysisEffect([s EXCEPT !.currentCaptions = captions])

setCurrentPlayheadPosition(s, position) ==
  recomputeActiveEvent([s EXCEPT !.currentPlayheadPosition = position])

setCurrentEvents(s, events) ==
  recomputeActiveEvent([s EXCEPT !.currentEvents = events])

\* setVideoEvents that stores the list without notifying the subscribers.
setVideoEvents_silent(s, events) == [s EXCEPT !.currentEvents = events]

\* setVideoEvents that adds the new events to the installed ones.
setVideoEvents_appends(s, events) == setCurrentEvents(s, s.currentEvents \o events)

setVideoEvents(s, events) == setCurrentEvents(s, events)

(***************************************************************************)
(* Playhead polling                                                        *)
(***************************************************************************)

\* stopPlayheadPolling that leaves the last published position in place.
stopPlayheadPolling_keepsPosition(s) ==
  IF ~s.isPlayheadPollingActive THEN s
  ELSE [s EXCEPT
          !.playheadTimers =
            IF s.playheadPollingIntervalId # None /\ @ > 0 THEN @ - 1 ELSE @,
          !.playheadPollingIntervalId = None,
          !.isPlayheadPollingActive = FALSE]

\* clearInterval(id) on the playhead timer, when there is an id.
stopPlayheadPolling(s) ==
  IF ~s.isPlayheadPollingActive THEN s
  ELSE setCurrentPlayheadPosition(
         [s EXCEPT
            !.playheadTimers =
              IF s.playheadPollingIntervalId # None /\ @ > 0 THEN @ - 1 ELSE @,
            !.playheadPollingIntervalId = None,
            !.isPlayheadPollingActive = FALSE],
         None)

\* readPlayheadPosition: element is what document.querySelector finds now
\* (None: no video element, Some(t): its currentTime).
readPlayheadPosition(s, element) ==
  IF ~Truthy(s.currentVideoId) THEN None ELSE element

\* updatePlayheadPosition that only skips the update when nothing was read.
updatePlayheadPosition_noSelfStop(s, element) ==
  LET seconds == readPlayheadPosition(s, element)
  IN IF seconds = None THEN s ELSE setCurrentPlayheadPosition(s, seconds)

updatePlayheadPosition(s, element) ==
  LET seconds == readPlayheadPosition(s, element)
  IN IF seconds = None
     THEN (IF ~Truthy(s.currentVideoId) THEN stopPlayheadPolling(s) ELSE s)
     ELSE setCurrentPlayheadPosition(s, seconds)

\* startPlayheadPolling without its already-polling guard.
startPlayheadPolling_noGuard(s, element) ==
  updatePlayheadPosition(
    [s EXCEPT !.playheadTimers = @ + 1,
              !.playheadPollingIntervalId = Some(1),
              !.isPlayheadPollingActive = TRUE],
    element)

startPlayheadPolling(s, element) ==
  IF s.isPlayheadPollingActive THEN s
  ELSE updatePlayheadPosition(
         [s EXCEPT !.playheadTimers = @ + 1,
                   !.playheadPollingIntervalId = Some(1),
                   !.isPlayheadPollingActive = TRUE],
         element)

(***************************************************************************)
(* URL polling                                                             *)
(***************************************************************************)

startPolling(s) ==
  IF s.isPollingActive THEN s
  ELSE [s EXCEPT !.urlTimers = @ + 1,
                 !.urlPollingIntervalId = Some(1),
                 !.isPollingActive = TRUE]

stopPolling(s) ==
  IF ~s.isPollingActive THEN s
  ELSE [s EXCEPT
          !.urlTimers = IF s.urlPollingIntervalId # None /\ @ > 0 THEN @ - 1 ELSE @,
          !.urlPollingIntervalId = None,
          !.isPollingActive = FALSE]

(***************************************************************************)
(* Caption extraction and URL processing                                   *)
(***************************************************************************)

RECURSIVE sumOver(_, _)
sumOver(f, S) ==
  IF S = {} THEN 0
  ELSE LET x == CHOOSE y \in S : TRUE IN f[x] + sumOver(f, S \ {x})

\* Number of extractCaptionsForVideo calls suspended at their awaits
\* (delay(1000), then extractCaptions(videoId): nothing is read or written
\* between the two, so they are one suspension).
inFlight(ex) == sumOver(ex, VideoIds)

\* extractCaptionsForVideo up to its first await: a cache hit publishes the
\* cached captions; a miss suspends the call.
extractCaptionsForVideo(s, videoId) ==
  LET cachedCaptions == getFromCache(s.captionsCache, videoId)
      s1 == [s EXCEPT !.captionsCache = cacheAfterGet(@, videoId)]
  IN IF Truthy(cachedCaptions)
     THEN setCurrentCaptions(s1, cachedCaptions)
     ELSE [s1 EXCEPT !.extractions[videoId] = @ + 1]

\* processCurrentUrl up to its first suspension. After a cache hit the awaited
\* promise is already resolved and startPlayheadPolling runs in the same task;
\* after a miss it runs when the extraction has completed (extractionDone).
processCurrentUrl(s, element) ==
  LET videoId == extractVideoId(s.url)
  IN IF Truthy(videoId)
     THEN LET s1 == setCurrentVideoId(s, videoId)
          IN IF Truthy(getFromCache(s1.captionsCache, videoId))
             THEN startPlayheadPolling(extractCaptionsForVideo(s1, videoId), element)
             ELSE extractCaptionsForVideo(s1, videoId)
     ELSE stopPlayheadPolling(setCurrentCaptions(setCurrentVideoId(s, NULL), NULL))

\* extractCaptions(videoId) resolved with a transcript: the rest of
\* extractCaptionsForVideo, then the rest of processCurrentUrl.
extractionResolved(s, videoId, transcript, element) ==
  LET s1 == [s EXCEPT !.extractions[videoId] = @ - 1]
      s2 == setCurrentCaptions(s1, transcript)
      s3 == [s2 EXCEPT !.captionsCache = addToCache(@, videoId, transcript)]
  IN startPlayheadPolling(s3, element)

\* extractCaptionsForVideo and processCurrentUrl without their catch blocks:
\* the rejection leaves both, nothing is published.
extractionRejected_uncaught(s, videoId, element) ==
  [s EXCEPT !.extractions[videoId] = @ - 1, !.lastStep.threw = TRUE]

\* extractCaptions(videoId) rejected: the catch block, then the rest of
\* processCurrentUrl.
extractionRejected(s, videoId, element) ==
  LET s1 == [s EXCEPT !.extractions[videoId] = @ - 1]
  IN startPlayheadPolling(setCurrentCaptions(s1, NULL), element)

\* checkForUrlChange that never sees a change.
checkForUrlChange_blind(s, element) == s

\* checkForUrlChange that processes the URL on every tick.
checkForUrlChange_always(s, element) ==
  processCurrentUrl([s EXCEPT !.lastProcessedUrl = s.url], element)

checkForUrlChange(s, element) ==
  IF s.url # s.lastProcessedUrl
  THEN processCurrentUrl([s EXCEPT !.lastProcessedUrl = s.url], element)
  ELSE s

\* handleVisibilityChange that leaves the URL timer running in a hidden tab.
handleVisibilityChange_keepsPolling(s, element) ==
  IF s.hidden
  THEN stopPlayheadPolling(s)
  ELSE LET s1 == startPolling(s)
           s2 == IF Truthy(s1.currentVideoId)
                 THEN startPlayheadPolling(s1, element) ELSE s1
       IN checkForUrlChange(s2, element)

\* handleVisibilityChange that leaves the URL check to the next timer tick.
handleVisibilityChange_nextTick(s, element) ==
  IF s.hidden
  THEN stopPlayheadPolling(stopPolling(s))
  ELSE LET s1 == startPolling(s)
       IN IF Truthy(s1.currentVideoId)
          THEN startPlayheadPolling(s1, element) ELSE s1

\* handleVisibilityChange, with document.hidden already at its new value.
handleVisibilityChange(s, element) ==
  IF s.hidden
  THEN stopPlayheadPolling(stopPolling(s))
  ELSE LET s1 == startPolling(s)
           s2 == IF Truthy(s1.currentVideoId)
                 THEN startPlayheadPolling(s1, element) ELSE s1
       IN checkForUrlChange(s2, element)

initYouTubeWatcher(s, element) ==
  LET s1 == processCurrentUrl([s EXCEPT !.lastProcessedUrl = s.url], element)
      s2 == [s1 EXCEPT !.lifecycle = "running"]
  IN IF ~s2.hidden THEN startPolling(s2) ELSE s2

\* The onCleanup callback of initYouTubeWatcher.
cleanup(s) ==
  stopPlayheadPolling(stopPolling([s EXCEPT !.lifecycle = "cleaned"]))

(***************************************************************************)
(* Automatic analysis (app component)                                      *)
(***************************************************************************)

\* The async block of the effect after its awaits: the client gets the video
\* id and captions the effect saw, and generateVideoAnalysis(true) runs up to
\* "await client.getVideoAnalysis()": without a current video it returns,
\* without current captions it reports the error. currentVideo is the
\* currentVideoId() the call read when it started.
analysisStarted(s, task) ==
  LET rest == s.analyses \ {task}
  IN IF ~Truthy(s.currentVideoId) THEN [s EXCEPT !.analyses = rest]
     ELSE IF ~Truthy(s.currentCaptions)
     THEN [s EXCEPT !.analyses = rest, !.isLoading = FALSE,
                    !.error = NoCaptionsError]
     ELSE [s EXCEPT !.analyses =
                      rest \cup {[task EXCEPT !.stage = "request",
                                              !.currentVideo = s.currentVideoId]}]

\* client.getVideoAnalysis() resolved: the client has computed the durations
\* of the parsed events, and the app installs them.
analysisResolved(s, task, rawEvents) ==
  [setVideoEvents([s EXCEPT !.analyses = @ \ {task}],
                  calculateEventDurations(rawEvents, None))
     EXCEPT !.isLoading = FALSE]

\* A rejection handler that clears the timeline speculatively.
analysisRejected_clears(s, task) ==
  [setVideoEvents([s EXCEPT !.analyses = @ \ {task}], <<>>)
     EXCEPT !.isLoading = FALSE, !.error = AnalysisError]

\* client.getVideoAnalysis() rejected: the error is reported, nothing installed.
analysisRejected(s, task) ==
  [s EXCEPT !.analyses = @ \ {task}, !.isLoading = FALSE, !.error = AnalysisError]

(***************************************************************************)
(* Spec: the watcher and the automatic analysis                            *)
(***************************************************************************)

VARIABLES
  \* SpecCalc: one duration calculation and the resolutions that follow it
  calcInput,                  \* the event array as passed in
  calcVideoDuration,          \* the videoDuration argument, None when undefined
  calcEvents,                 \* the array (sorted and mutated in place)
  calcBy,                     \* "input", or the function that was applied
  resolvePosition,            \* the position last resolved
  resolveResult,              \* what resolveActiveEvent returned for it
  resolved,                   \* TRUE once resolveActiveEvent has been called
  \* SpecCache: the cache under arbitrary calls, with its history
  cacheClock,                 \* number of cache calls so far
  insertedAt,                 \* key -> clock value when the key entered the Map
  insertLog,                  \* the video ids passed to addToCache, in order
  lastEvicted,                \* the key this step's addToCache deleted, or NULL
  lastHit                     \* the key of the last getFromCache hit, or NULL

calcVars ==
  <<calcInput, calcVideoDuration, calcEvents, calcBy, resolvePosition,
    resolveResult, resolved>>

cacheVars == <<cacheClock, insertedAt, insertLog, lastEvicted, lastHit>>

vars == <<watcherVars, calcVars, cacheVars>>

InitWatcher ==
  /\ url \in Urls
  /\ hidden \in BOOLEAN
  /\ lifecycle = "loaded"
  /\ urlTimers = 0
  /\ playheadTimers = 0
  /\ extractions = [v \in VideoIds |-> 0]
  /\ currentVideoId = NULL
  /\ currentCaptions = NULL
  /\ currentPlayheadPosition = None
  /\ currentEvents = <<>>
  /\ currentActiveEvent = None
  /\ captionsCache = <<>>
  /\ lastProcessedUrl = ""
  /\ urlPollingIntervalId = None
  /\ playheadPollingIntervalId = None
  /\ isPollingActive = FALSE
  /\ isPlayheadPollingActive = FALSE
  /\ processedVideoIds = {}
  /\ isLoading = FALSE
  /\ error = NULL
  /\ analyses = {}
  /\ lastStep = [handler |-> "load", element |-> None, urlChanged |-> FALSE,
                 threw |-> FALSE]

InitCalcIdle ==
  /\ calcInput = <<>>
  /\ calcVideoDuration = None
  /\ calcEvents = <<>>
  /\ calcBy = "input"
  /\ resolvePosition = None
  /\ resolveResult = None
  /\ resolved = FALSE

InitCacheIdle ==
  /\ cacheClock = 0
  /\ insertedAt = [k \in CacheKeys |-> 0]
  /\ insertLog = <<>>
  /\ lastEvicted = NULL
  /\ lastHit = NULL

Init == InitWatcher /\ InitCalcIdle /\ InitCacheIdle

\* index.ts calls initYouTubeWatcher once.
InitYouTubeWatcher ==
  /\ lifecycle = "loaded"
  /\ \E element \in ElementReads : Becomes(initYouTubeWatcher(
         step(State, "initYouTubeWatcher", None, FALSE), element))
  /\ UNCHANGED <<calcVars, cacheVars>>

\* The user follows a link: single-page navigation changes location.href.
Navigate ==
  /\ inFlight(extractions) < MaxInFlight
  /\ \E u \in Urls \ {url} : Becomes([step(State, "navigate", None, FALSE) EXCEPT !.url = u])
  /\ UNCHANGED <<calcVars, cacheVars>>

\* A tick of the URL-polling interval timer.
UrlPollTick ==
  /\ urlTimers > 0
  /\ \E element \in ElementReads :
       \E after \in {checkForUrlChange(
                       step(State, "checkForUrlChange", None, FALSE), element)} :
         Becomes(after)
  /\ UNCHANGED <<calcVars, cacheVars>>

\* A tick of the playhead-polling interval timer.
PlayheadPollTick ==
  /\ playheadTimers > 0
  /\ \E element \in ElementReads : Becomes(updatePlayheadPosition(
                 step(State, "updatePlayheadPosition", element, FALSE),
                 element))
  /\ UNCHANGED <<calcVars, cacheVars>>

\* The tab is hidden or shown; the listener runs while it is registered.
VisibilityChange ==
  /\ \E element \in ElementReads :
       LET listening == lifecycle = "running"
           s == [step(State,
                      IF listening THEN "handleVisibilityChange" ELSE "visibility",
                      IF listening /\ hidden THEN element ELSE None,
                      listening /\ hidden /\ url # lastProcessedUrl)
                   EXCEPT !.hidden = ~hidden]
       IN Becomes(IF lifecycle = "running"
                  THEN handleVisibilityChange(s, element) ELSE s)
  /\ UNCHANGED <<calcVars, cacheVars>>

ExtractionResolved ==
  /\ \E videoId \in VideoIds, element \in ElementReads :
       /\ extractions[videoId] > 0
       /\ Becomes(extractionResolved(step(State, "extractionResolved", None, FALSE),
                                     videoId, TranscriptOf(videoId), element))
  /\ UNCHANGED <<calcVars, cacheVars>>

ExtractionRejected ==
  /\ \E videoId \in VideoIds, element \in ElementReads :
       /\ extractions[videoId] > 0
       /\ Becomes(extractionRejected(step(State, "extractionRejected", None, FALSE),
                                     videoId, element))
  /\ UNCHANGED <<calcVars, cacheVars>>

AnalysisStarted ==
  /\ \E task \in analyses :
       /\ task.stage = "context"
       /\ Becomes(analysisStarted(step(State, "analysisStarted", None, FALSE), task))
  /\ UNCHANGED <<calcVars, cacheVars>>

AnalysisResolved ==
  /\ \E task \in analyses, rawEvents \in AnalysisResults :
       /\ task.stage = "request"
       /\ Becomes(analysisResolved(step(State, "analysisResolved", None, FALSE),
                                   task, rawEvents))
  /\ UNCHANGED <<calcVars, cacheVars>>

AnalysisRejected ==
  /\ \E task \in analyses :
       /\ task.stage = "request"
       /\ Becomes(analysisRejected(step(State, "analysisRejected", None, FALSE), task))
  /\ UNCHANGED <<calcVars, cacheVars>>

\* The component that called initYouTubeWatcher is disposed.
Cleanup ==
  /\ lifecycle = "running"
  /\ Becomes(cleanup(step(State, "cleanup", None, FALSE)))
  /\ UNCHANGED <<calcVars, cacheVars>>

Next ==
  \/ InitYouTubeWatcher
  \/ Navigate
  \/ UrlPollTick
  \/ PlayheadPollTick
  \/ VisibilityChange
  \/ ExtractionResolved
  \/ ExtractionRejected
  \/ AnalysisStarted
  \/ AnalysisResolved
  \/ AnalysisRejected
  \/ Cleanup

Spec == Init /\ [][Next]_vars

\* The watcher's own handlers: the steps of the app component's analyses
\* write only currentEvents, isLoading, error and analyses, which no handler of
\* the watcher reads.
NextLive ==
  \/ InitYouTubeWatcher
  \/ Navigate
  \/ UrlPollTick
  \/ PlayheadPollTick
  \/ VisibilityChange
  \/ ExtractionResolved
  \/ ExtractionRejected
  \/ Cleanup

\* The watcher with the scheduling of setInterval: while the URL timer is
\* set, its callback runs again and again.
SpecLive == Init /\ [][NextLive]_vars /\ WF_vars(UrlPollTick)

(***************************************************************************)
(* SpecCache: the caption cache under arbitrary calls                      *)
(***************************************************************************)

cacheKeys(cache) == {cache[i].key : i \in DOMAIN cache}

InitCache ==
  /\ InitWatcher
  /\ url = [host |-> "www.youtube.com", path |-> "/", v |-> NULL]
  /\ ~hidden
  /\ InitCalcIdle
  /\ InitCacheIdle

\* addToCache(videoId, TranscriptOf(videoId)). The history records the Map's
\* own bookkeeping: a deleted key loses its insertion time, a key that set()
\* adds gets the current time, a key that set() overwrites keeps its time.
CacheAdd ==
  /\ cacheClock < MaxCacheOps
  /\ \E videoId \in CacheKeys :
       LET deleted == cacheKeys(captionsCache) \ cacheKeys(evictOldest(captionsCache))
           fresh == videoId \notin cacheKeys(captionsCache) \/ videoId \in deleted
       IN /\ captionsCache' = addToCache(captionsCache, videoId, TranscriptOf(videoId))
          /\ cacheClock' = cacheClock + 1
          /\ insertedAt' = IF fresh THEN [insertedAt EXCEPT ![videoId] = cacheClock + 1]
                           ELSE insertedAt
          /\ insertLog' = Append(insertLog, videoId)
          /\ lastEvicted' = IF deleted = {} THEN NULL ELSE CHOOSE k \in deleted : TRUE
          /\ lastHit' = lastHit
  /\ UNCHANGED <<url, hidden, lifecycle, urlTimers, playheadTimers, extractions,
                 currentVideoId, currentCaptions, currentPlayheadPosition,
                 currentEvents, currentActiveEvent, lastProcessedUrl,
                 urlPollingIntervalId, playheadPollingIntervalId, isPollingActive,
                 isPlayheadPollingActive, processedVideoIds, isLoading, error,
                 analyses, lastStep>>
  /\ UNCHANGED calcVars

\* getFromCache(videoId).
CacheGet ==
  /\ cacheClock < MaxCacheOps
  /\ \E videoId \in CacheKeys :
       /\ captionsCache' = cacheAfterGet(captionsCache, videoId)
       /\ lastHit' = IF getFromCache(captionsCache, videoId) # NULL
                     THEN videoId ELSE lastHit
  /\ cacheClock' = cacheClock + 1
  /\ lastEvicted' = NULL
  /\ UNCHANGED <<insertedAt, insertLog>>
  /\ UNCHANGED <<url, hidden, lifecycle, urlTimers, playheadTimers, extractions,
                 currentVideoId, currentCaptions, currentPlayheadPosition,
                 currentEvents, currentActiveEvent, lastProcessedUrl,
                 urlPollingIntervalId, playheadPollingIntervalId, isPollingActive,
                 isPlayheadPollingActive, processedVideoIds, isLoading, error,
                 analyses, lastStep>>
  /\ UNCHANGED calcVars

NextCache == CacheAdd \/ CacheGet

SpecCache == InitCache /\ [][NextCache]_vars

distinctKeys(log) == \A i, j \in DOMAIN log : i # j => log[i] # log[j]

\* C2: the cache never holds more than MAX_CACHE_SIZE entries, and once
\* MAX_CACHE_SIZE + 1 distinct video ids have been added to the empty cache it
\* holds exactly MAX_CACHE_SIZE entries: not the first id added, and all the
\* others.
C2_CacheCapacity ==
  /\ Len(captionsCache) <= MAX_CACHE_SIZE
  /\ (Len(insertLog) = MAX_CACHE_SIZE + 1 /\ distinctKeys(insertLog))
       => /\ Len(captionsCache) = MAX_CACHE_SIZE
          /\ insertLog[1] \notin cacheKeys(captionsCache)
          /\ \A i \in 2..(MAX_CACHE_SIZE + 1) : insertLog[i] \in cacheKeys(captionsCache)

\* C2 witness: MAX_CACHE_SIZE + 1 distinct ids were added and the first one is gone.
C2_Witness ==
  /\ Len(insertLog) = MAX_CACHE_SIZE + 1
  /\ distinctKeys(insertLog)
  /\ Len(captionsCache) = MAX_CACHE_SIZE
  /\ insertLog[1] \notin cacheKeys(captionsCache)

\* The key addToCache would delete from this cache (empty below the maximum size).
victim(cache) == cacheKeys(cache) \ cacheKeys(evictOldest(cache))

\* C3: the key an addToCache deletes is the one that entered the Map earliest
\* among the keys present, and a getFromCache call does not change which key
\* the next addToCache deletes.
C3_EvictionOrder ==
  [][ /\ lastEvicted' # NULL
         => \A k \in cacheKeys(captionsCache) :
              insertedAt[lastEvicted'] <= insertedAt[k]
      /\ insertLog' = insertLog
         => victim(captionsCache') = victim(captionsCache) ]_vars

\* C3 witness: a key was hit by getFromCache and is the key deleted by the
\* addToCache of this step, from a cache holding other keys too.
C3_Witness ==
  /\ lastEvicted # NULL
  /\ lastHit = lastEvicted
  /\ Len(captionsCache) >= 2
  /\ insertLog[Len(insertLog)] # lastEvicted

\* C1: when a caption extraction for video v completes (with a transcript or
\* with a failure) while currentVideoId is another video, currentCaptions is
\* left as it is.
C1_StaleExtractionDiscarded ==
  [][ \A v \in VideoIds :
        (extractions'[v] < extractions[v] /\ currentVideoId \in VideoIds \ {v})
          => currentCaptions' = currentCaptions ]_vars

(***************************************************************************)
(* SpecCalc: duration calculation and active-event resolution on inputs    *)
(***************************************************************************)

Timestamps == {0, 10, 30, 60, 90}

\* The videoDuration argument: undefined, shorter than the last timestamp can
\* be, and longer than every timestamp.
VideoDurations == {None, Some(60), Some(120)}

ResolvePositions == {None} \cup {Some(p) : p \in {0, 29, 30, 95}}

\* The duration an input event already carries: none, or one supplied with it
\* (the schema's optional duration, the VideoEvent constructor's
\* nextEventTimestamp).
PresetDurations == {None, Some(5)}

\* Event lists of up to MaxEvents events; the i-th event of a list is named
\* after i, so that every event of a list can be told from the others.
EventLists ==
  UNION { { [i \in 1..n |->
               [name |-> "event-" \o ToString(i),
                description |-> "description-" \o ToString(i),
                timestamp |-> ts[i],
                duration |-> preset]] :
            ts \in [1..n -> Timestamps], preset \in PresetDurations } :
          n \in 0..MaxEvents }

InitCalc ==
  /\ InitWatcher
  /\ url = [host |-> "www.youtube.com", path |-> "/", v |-> NULL]
  /\ ~hidden
  /\ InitCacheIdle
  /\ calcInput \in EventLists
  /\ calcVideoDuration \in VideoDurations
  /\ calcEvents = calcInput
  /\ calcBy = "input"
  /\ resolvePosition = None
  /\ resolveResult = None
  /\ resolved = FALSE

\* GeminiClient.calculateEventDurations(events, videoDuration).
CalcEventDurations ==
  /\ calcBy = "input"
  /\ calcEvents' = calculateEventDurations(calcEvents, calcVideoDuration)
  /\ calcBy' = "calculateEventDurations"
  /\ UNCHANGED <<calcInput, calcVideoDuration, resolvePosition, resolveResult, resolved>>
  /\ UNCHANGED <<watcherVars, cacheVars>>

\* VideoEvent.calculateDurations(events, videoDuration).
CalcDurations ==
  /\ calcBy = "input"
  /\ calcEvents' = calculateDurations(calcEvents, calcVideoDuration)
  /\ calcBy' = "calculateDurations"
  /\ UNCHANGED <<calcInput, calcVideoDuration, resolvePosition, resolveResult, resolved>>
  /\ UNCHANGED <<watcherVars, cacheVars>>

\* resolveActiveEvent(position) over the installed timeline.
Resolve ==
  /\ calcBy # "input"
  /\ \E position \in ResolvePositions :
       /\ resolvePosition' = position
       /\ resolveResult' = resolveActiveEvent(calcEvents, position)
  /\ resolved' = TRUE
  /\ UNCHANGED <<calcInput, calcVideoDuration, calcEvents, calcBy>>
  /\ UNCHANGED <<watcherVars, cacheVars>>

NextCalc == CalcEventDurations \/ CalcDurations \/ Resolve

SpecCalc == InitCalc /\ [][NextCalc]_vars

timestampsOf(events) == [i \in DOMAIN events |-> events[i].timestamp]

\* Indices of the events that have started by position p.
started(events, p) == {i \in DOMAIN events : events[i].timestamp <= p}

\* C4: resolveActiveEvent(position) returns an event of the timeline whose
\* timestamp is the greatest one <= position (inclusive, and whatever the
\* event's duration); for events at 0, 30, 60, 90 position 29 gives the event
\* at 0, position 30 the event at 30 and position 95 the event at 90.
C4_LatestStarted ==
  (resolved /\ resolvePosition # None)
    => LET p == resolvePosition[1]
       IN /\ started(calcEvents, p) # {}
             => /\ resolveResult # None
                /\ resolveResult[1] \in {calcEvents[i] : i \in DOMAIN calcEvents}
                /\ resolveResult[1].timestamp <= p
                /\ \A i \in started(calcEvents, p) :
                     calcEvents[i].timestamp <= resolveResult[1].timestamp
          /\ timestampsOf(calcEvents) = <<0, 30, 60, 90>>
             => /\ p = 29 => resolveResult[1].timestamp = 0
                /\ p = 30 => resolveResult[1].timestamp = 30
                /\ p = 95 => resolveResult[1].timestamp = 90

\* C4 witness: events at 0, 30, 60, 90 without a video duration, position 95
\* resolved to the event at 90, whose duration is 0.
C4_Witness ==
  /\ resolved
  /\ timestampsOf(calcEvents) = <<0, 30, 60, 90>>
  /\ resolvePosition = Some(95)
  /\ resolveResult # None
  /\ resolveResult[1].timestamp = 90
  /\ resolveResult[1].duration = Some(0)

\* C5: resolveActiveEvent returns absent exactly when the position is absent,
\* the timeline is empty, or the position is less than every timestamp.
C5_AbsentExactly ==
  resolved
    => (resolveResult = None
          <=> \/ resolvePosition = None
              \/ calcEvents = <<>>
              \/ \A i \in DOMAIN calcEvents :
                   resolvePosition[1] < calcEvents[i].timestamp)

\* C5 witness: a position equal to the least timestamp of a non-empty timeline
\* resolves to an event (the boundary of the third case).
C5_Witness ==
  /\ resolved
  /\ resolvePosition = Some(30)
  /\ calcEvents # <<>>
  /\ \A i \in DOMAIN calcEvents : calcEvents[i].timestamp >= 30
  /\ resolveResult # None

\* C5 witness of the empty timeline: installEvents([]) and a position.
C5_WitnessEmpty ==
  /\ resolved
  /\ calcInput = <<>>
  /\ resolvePosition # None
  /\ resolveResult = None

\* Greatest element of a non-empty set of integers.
maxOf(S) == CHOOSE x \in S : \A y \in S : y <= x

\* C6: of several events sharing the greatest timestamp <= position,
\* resolveActiveEvent returns the one latest in the array, which is the one
\* latest in the installed (input) list.
C6_TieBreak ==
  (resolved /\ resolveResult # None)
    => LET p == resolvePosition[1]
           t == resolveResult[1].timestamp
           tiedNow == {i \in DOMAIN calcEvents : calcEvents[i].timestamp = t}
           tiedIn == {i \in DOMAIN calcInput : calcInput[i].timestamp = t}
       IN /\ resolveResult[1] = calcEvents[maxOf(tiedNow)]
          /\ resolveResult[1].name = calcInput[maxOf(tiedIn)].name

\* C6 witness: two events share the timestamp of the resolved event.
C6_Witness ==
  /\ resolved
  /\ resolveResult # None
  /\ Cardinality({i \in DOMAIN calcEvents :
                    calcEvents[i].timestamp = resolveResult[1].timestamp}) >= 2

C8_DurationsToNext ==
  calcBy # "input"
    => /\ Len(calcEvents) = Len(calcInput)
       /\ \A i \in 1..(Len(calcEvents) - 1) :
            /\ calcEvents[i].timestamp <= calcEvents[i + 1].timestamp
            /\ calcEvents[i].duration =
                 Some(calcEvents[i + 1].timestamp - calcEvents[i].timestamp)

\* C8 witness: an unsorted list of three events went through the calculation.
C8_Witness ==
  /\ calcBy # "input"
  /\ Len(calcInput) >= 3
  /\ calcInput[1].timestamp > calcInput[2].timestamp
  /\ calcEvents[1].duration # Some(0)

\* C9: with a video duration D >= the last timestamp, the last event's
\* duration is D minus its timestamp.
C9_LastDurationFromVideo ==
  (/\ calcBy # "input"
   /\ calcEvents # <<>>
   /\ calcVideoDuration # None
   /\ calcVideoDuration[1] >= calcEvents[Len(calcEvents)].timestamp)
    => calcEvents[Len(calcEvents)].duration =
         Some(calcVideoDuration[1] - calcEvents[Len(calcEvents)].timestamp)

\* C9 witness: the single event at 10 of a 60 second video has duration 50.
C9_Witness ==
  /\ calcBy = "calculateEventDurations"
  /\ timestampsOf(calcInput) = <<10>>
  /\ calcVideoDuration = Some(60)
  /\ calcEvents[1].duration = Some(50)

\* C10: without a video duration, the last event of a non-empty list has
\* duration 0 after duration calculation.
C10_LastDurationZero ==
  (calcBy # "input" /\ calcEvents # <<>> /\ calcVideoDuration = None)
    => calcEvents[Len(calcEvents)].duration = Some(0)

\* The (name, description, timestamp) triple of an event.
triple(e) == <<e.name, e.description, e.timestamp>>

\* How many events of the list carry the triple t.
occurrences(events, t) == Cardinality({i \in DOMAIN events : triple(events[i]) = t})

\* C11: duration calculation leaves a list sorted ascending by timestamp that
\* is a permutation of the input: every (name, description, timestamp) triple
\* occurs in the output as often as in the input, and no other triple does.
C11_SortedPermutation ==
  calcBy # "input"
    => /\ Len(calcEvents) = Len(calcInput)
       /\ \A i \in 1..(Len(calcEvents) - 1) :
            calcEvents[i].timestamp <= calcEvents[i + 1].timestamp
       /\ \A i \in DOMAIN calcInput :
            occurrences(calcEvents, triple(calcInput[i]))
              = occurrences(calcInput, triple(calcInput[i]))
       /\ \A i \in DOMAIN calcEvents :
            occurrences(calcInput, triple(calcEvents[i])) > 0

\* C11 witness: a list whose first event is the latest one was sorted, and the
\* event moved to the end with its own name.
C11_Witness ==
  /\ calcBy # "input"
  /\ Len(calcInput) >= 3
  /\ \A i \in 2..Len(calcInput) : calcInput[i].timestamp < calcInput[1].timestamp
  /\ triple(calcEvents[Len(calcEvents)]) = triple(calcInput[1])

\* C12: when the caption scraper fails for video v, the cache is left as it
\* was (no entry for v is created), currentCaptions is absent afterwards, and
\* no exception leaves extractCaptionsForVideo or processCurrentUrl.
C12_ExtractionFailure ==
  [][ \A v \in VideoIds :
        (lastStep'.handler = "extractionRejected" /\ extractions'[v] < extractions[v])
          => /\ (cacheHas(captionsCache', v) <=> cacheHas(captionsCache, v))
             /\ captionsCache' = captionsCache
             /\ currentCaptions' = NULL
             /\ ~lastStep'.threw ]_vars

\* C12 witness: the scraper has just failed for the current video, the only
\* extraction in flight; there are no captions and no cache entry for it.
C12_Witness ==
  /\ lastStep.handler = "extractionRejected"
  /\ currentVideoId \in VideoIds
  /\ extractions[currentVideoId] = 0
  /\ ~cacheHas(captionsCache, currentVideoId)
  /\ currentCaptions = NULL

\* C13: an analysis call that read currentVideoId = A when it started and
\* resolves while currentVideoId is another value leaves currentEvents as it is.
C13_StaleAnalysisDiscarded ==
  [][ \A task \in analyses \ analyses' :
        (task.stage = "request" /\ task.currentVideo # currentVideoId)
          => currentEvents' = currentEvents ]_vars

\* URL shapes beyond the pages of Urls: other hosts, a watch URL without a v
\* parameter, a short link without a path remainder.
UrlShapes ==
  [host : {"www.youtube.com", "m.youtube.com", "youtu.be", "www.example.com"},
   path : {"/", "/a", "/watch"},
   v : VideoIds \cup {NULL}]

\* The identifier a URL stands for: the v parameter of a /watch URL on a
\* YouTube host, the path remainder of a short link, else absent.
expectedVideoId(u) ==
  CASE u.host \in {"www.youtube.com", "m.youtube.com"} /\ u.path = "/watch" -> u.v
    [] u.host = "youtu.be" /\ u.path = "/a" -> "a"
    [] u.host = "youtu.be" /\ u.path = "/watch" -> "watch"
    [] OTHER -> NULL

C15_NoUrlPollingWhileHidden ==
  (lifecycle # "loaded" /\ hidden)
    => /\ ~isPollingActive
       /\ urlPollingIntervalId = None
       /\ urlTimers = 0

\* C15 witness: the tab is hidden after two videos were processed, the second
\* of them found by the URL check of a visible tab.
C15_Witness ==
  /\ lifecycle = "running"
  /\ hidden
  /\ Len(captionsCache) = 2
  /\ urlTimers = 0

C17_PlayheadPollingWhileWatching ==
  (Truthy(currentVideoId) /\ ~hidden) => isPlayheadPollingActive

\* C18: whenever the tab is hidden, playhead polling is inactive and
\* currentPlayheadPosition is absent.
C18_NoPlayheadWhileHidden ==
  hidden => (~isPlayheadPollingActive /\ currentPlayheadPosition = None)

\* C19: after a playhead poll tick that cannot locate the media element,
\* currentPlayheadPosition is absent, whether or not a video id is present.
C19_NoElementClearsPosition ==
  [][ (lastStep'.handler = "updatePlayheadPosition" /\ lastStep'.element = None)
        => currentPlayheadPosition' = None ]_vars

C20_WitnessAway ==
  /\ lifecycle = "running"
  /\ ~hidden
  /\ lastProcessedUrl = url
  /\ captionsCache # <<>>
  /\ currentVideoId = NULL
  /\ ~isPlayheadPollingActive
  /\ currentPlayheadPosition = None

\* C21: the start of an analysis call and its rejection both leave
\* currentEvents and currentCaptions as they are, and after the rejection the
\* loading flag is off and the error message is set.
C21_ProviderFailureKeepsState ==
  [][ /\ lastStep'.handler \in {"analysisStarted", "analysisRejected"}
         => /\ currentEvents' = currentEvents
            /\ currentCaptions' = currentCaptions
      /\ lastStep'.handler = "analysisRejected"
         => /\ ~isLoading'
            /\ error' = AnalysisError ]_vars

\* C21 witness: an analysis has just been rejected while a timeline and
\* captions were published; they are still there, with the error.
C21_Witness ==
  /\ lastStep.handler = "analysisRejected"
  /\ currentEvents # <<>>
  /\ Truthy(currentCaptions)
  /\ error = AnalysisError
  /\ ~isLoading

\* Lists handed to setVideoEvents: what the analysis installs, an unsorted
\* list as the provider returns it, and a single event.
InstallLists ==
  {calculateEventDurations(raw, None) : raw \in AnalysisResults}
    \cup AnalysisResults
    \cup {<<Event("Only", "one", 10)>>}

\* C22: setVideoEvents(E) from any reachable state leaves currentEvents equal
\* to E (same length, same order, nothing of the previous list) and
\* currentVideoId, currentCaptions, currentPlayheadPosition and the cache as
\* they were; the step in which an analysis installs its events does so.
C22_InstallReplaces ==
  /\ [](\A E \in InstallLists :
          LET after == setVideoEvents(State, E)
          IN /\ after.currentEvents = E
             /\ after.currentVideoId = currentVideoId
             /\ after.currentCaptions = currentCaptions
             /\ after.currentPlayheadPosition = currentPlayheadPosition
             /\ after.captionsCache = captionsCache)
  /\ [][ lastStep'.handler = "analysisResolved"
           => /\ currentEvents' \in InstallLists
              /\ currentVideoId' = currentVideoId
              /\ currentCaptions' = currentCaptions
              /\ currentPlayheadPosition' = currentPlayheadPosition
              /\ captionsCache' = captionsCache ]_vars

\* C22 witness: an analysis has just installed its events while a video,
\* captions, a position and a cache entry were present.
C22_Witness ==
  /\ lastStep.handler = "analysisResolved"
  /\ Len(currentEvents) = 2
  /\ Truthy(currentVideoId)
  /\ Truthy(currentCaptions)
  /\ currentPlayheadPosition # None
  /\ captionsCache # <<>>

C24_ShortVideoDurationZero ==
  (/\ calcBy # "input"
   /\ calcEvents # <<>>
   /\ calcVideoDuration # None
   /\ calcVideoDuration[1] < calcEvents[Len(calcEvents)].timestamp)
    => calcEvents[Len(calcEvents)].duration = Some(0)

\* C25: with a video duration less than the last timestamp, the last event's
\* duration is the negative difference, not clamped.
C25_ShortVideoDurationNegative ==
  (/\ calcBy # "input"
   /\ calcEvents # <<>>
   /\ calcVideoDuration # None
   /\ calcVideoDuration[1] < calcEvents[Len(calcEvents)].timestamp)
    => /\ calcEvents[Len(calcEvents)].duration =
            Some(calcVideoDuration[1] - calcEvents[Len(calcEvents)].timestamp)
       /\ calcEvents[Len(calcEvents)].duration[1] < 0

\* C25 witness: the last event at 90 of a 60 second video has duration -30.
C25_Witness ==
  /\ calcBy = "calculateEventDurations"
  /\ calcVideoDuration = Some(60)
  /\ calcEvents # <<>>
  /\ calcEvents[Len(calcEvents)].timestamp = 90
  /\ calcEvents[Len(calcEvents)].duration = Some(-30)

C27_ImmediateReadOnVisible ==
  [][ (/\ lastStep'.handler = "handleVisibilityChange"
       /\ hidden /\ ~hidden'
       /\ Truthy(currentVideoId)
       /\ Truthy(currentVideoId'))
        => /\ isPlayheadPollingActive'
           /\ lastStep'.element # None
                => currentPlayheadPosition' = lastStep'.element ]_vars

\* C28: when currentVideoId changes to a different id or becomes absent,
\* currentEvents does not keep the previous video's events: a non-empty
\* timeline is empty after the step.
C28_EventsClearedOnVideoChange ==
  [][ (currentVideoId' # currentVideoId /\ currentEvents # <<>>)
        => currentEvents' = <<>> ]_vars

\* C29: at no time are two caption extractions in flight for the same video
\* id.
C29_OneExtractionPerVideo ==
  \A v \in VideoIds : extractions[v] <= 1

\* C30: automatic analysis is issued at most once per video id: the set of
\* processed video ids only grows, and every step that starts an automatic
\* analysis for video v finds v unprocessed and marks it processed; so once
\* v is processed, whatever became of its analysis, no step starts another
\* one for v.
C30_AutoAnalysisOncePerVideo ==
  [][ /\ processedVideoIds \subseteq processedVideoIds'
      /\ \A task \in analyses' \ analyses :
           task.stage = "context"
             => /\ task.videoId \notin processedVideoIds
                /\ task.videoId \in processedVideoIds'
      /\ \A task \in analyses' :
           task.stage = "request"
             => \E t \in analyses : t.videoId = task.videoId ]_vars

\* C30 witness: the analysis of the current video has failed, the user left
\* and came back while the tab was hidden (the URL check on showing the tab
\* has just published id and cached captions again), and no analysis is under
\* way.
C30_Witness ==
  /\ lastStep.handler = "handleVisibilityChange"
  /\ lastStep.urlChanged
  /\ Truthy(currentVideoId)
  /\ currentCaptions = TranscriptOf(currentVideoId)
  /\ lastProcessedUrl = url
  /\ currentVideoId \in processedVideoIds
  /\ error = AnalysisError
  /\ ~isLoading
  /\ analyses = {}

\* The polling state of a watcher state: both flags, both timers and ids.
pollingOf(s) ==
  <<s.isPollingActive, s.urlTimers, s.urlPollingIntervalId,
    s.isPlayheadPollingActive, s.playheadTimers, s.playheadPollingIntervalId>>

\* C31: a caption-extraction failure or an analysis-provider failure does not
\* stop the polling loops. Wherever an extraction is in flight, its failure
\* leaves URL polling and playhead polling in the state its success would
\* leave them in; a failure step leaves the handler without an exception and
\* the URL timer as it was, and a provider failure leaves the playhead polling
\* as it was too (as a provider success does).
C31_FailuresKeepPolling ==
  /\ [](\A videoId \in VideoIds, element \in ElementReads :
          extractions[videoId] > 0
            => pollingOf(extractionRejected(State, videoId, element))
                 = pollingOf(extractionResolved(State, videoId,
                                                TranscriptOf(videoId), element)))
  /\ [][ /\ lastStep'.handler \in {"extractionRejected", "analysisRejected"}
             => /\ ~lastStep'.threw
                /\ isPollingActive' = isPollingActive
                /\ urlTimers' = urlTimers
                /\ urlPollingIntervalId' = urlPollingIntervalId
                /\ lastProcessedUrl' = lastProcessedUrl
         /\ lastStep'.handler \in {"analysisRejected", "analysisResolved"}
             => pollingOf(State)' = pollingOf(State) ]_vars

\* C31 witness: an extraction has just failed on a visible watch page; both
\* timers are running.
C31_Witness ==
  /\ lastStep.handler = "extractionRejected"
  /\ ~hidden
  /\ Truthy(currentVideoId)
  /\ currentCaptions = NULL
  /\ isPollingActive /\ urlTimers = 1
  /\ isPlayheadPollingActive /\ playheadTimers = 1

\* C31 witness: a provider request has just failed; both timers are running.
C31_WitnessProvider ==
  /\ lastStep.handler = "analysisRejected"
  /\ error = AnalysisError
  /\ isPollingActive /\ urlTimers = 1
  /\ isPlayheadPollingActive /\ playheadTimers = 1

\* C32: a URL check that finds the URL equal to lastProcessedUrl changes no
\* state at all, and a playhead poll tick changes nothing except
\* currentPlayheadPosition (with the active event derived from it) and the
\* playhead-polling flag, id and timer.
C32_OwnershipFrame ==
  [][ /\ (lastStep'.handler = "checkForUrlChange" /\ url = lastProcessedUrl)
           => [State' EXCEPT !.lastStep = lastStep] = State
      /\ lastStep'.handler = "updatePlayheadPosition"
           => [State' EXCEPT !.lastStep = lastStep,
                            !.currentPlayheadPosition = currentPlayheadPosition,
                            !.currentActiveEvent = currentActiveEvent,
                            !.isPlayheadPollingActive = isPlayheadPollingActive,
                            !.playheadPollingIntervalId = playheadPollingIntervalId,
                            !.playheadTimers = playheadTimers] = State ]_vars

\* C32 witness: a URL check has just run on the already processed URL of a
\* watch page whose extraction is still in flight.
C32_Witness ==
  /\ lastStep.handler = "checkForUrlChange"
  /\ url = lastProcessedUrl
  /\ Truthy(currentVideoId)
  /\ extractions[currentVideoId] = 1
  /\ currentCaptions = NULL

\* C32 witness: a playhead tick has just published the element's time while
\* events are installed.
C32_WitnessTick ==
  /\ lastStep.handler = "updatePlayheadPosition"
  /\ lastStep.element = Some(30)
  /\ currentPlayheadPosition = Some(30)
  /\ currentEvents # <<>>
  /\ currentActiveEvent # None

\* C33: at most one URL-polling timer and at most one playhead-polling timer
\* exist; each active flag is true exactly when the interval id is set, which
\* is exactly when the timer exists (so that after a stop no tick of it runs);
\* start while active and stop while inactive change nothing.
C33_OneTimerEach ==
  /\ urlTimers \in {0, 1}
  /\ playheadTimers \in {0, 1}
  /\ isPollingActive <=> urlPollingIntervalId # None
  /\ isPollingActive <=> urlTimers = 1
  /\ isPlayheadPollingActive <=> playheadPollingIntervalId # None
  /\ isPlayheadPollingActive <=> playheadTimers = 1
  /\ isPollingActive => startPolling(State) = State
  /\ ~isPollingActive => stopPolling(State) = State
  /\ isPlayheadPollingActive
       => \A element \in ElementReads : startPlayheadPolling(State, element) = State
  /\ ~isPlayheadPollingActive => stopPlayheadPolling(State) = State

\* C33 witness: the tab has just been shown while playhead polling was still
\* active (the element's time was not read), and there is one timer of each.
C33_Witness ==
  /\ lastStep.handler = "handleVisibilityChange"
  /\ ~hidden
  /\ ~lastStep.urlChanged
  /\ lastStep.element = Some(30)
  /\ Truthy(currentVideoId)
  /\ currentPlayheadPosition = None
  /\ isPlayheadPollingActive /\ playheadTimers = 1
  /\ isPollingActive /\ urlTimers = 1

C36_AnalysisCaptionsMatchVideo ==
  \A task \in analyses :
    task.stage = "request" => task.captions = TranscriptOf(task.videoId)

\* C37: after the watcher's cleanup has run, neither URL polling nor playhead
\* polling is active in any later state.
C37_NoPollingAfterCleanup ==
  lifecycle = "cleaned"
    => /\ ~isPollingActive /\ urlTimers = 0
       /\ ~isPlayheadPollingActive /\ playheadTimers = 0

\* C38: addToCache for a video id that is already in the cache leaves the set
\* of cached ids unchanged, also when the cache is at capacity.
C38_ReAddEvictsNothing ==
  [][ (/\ Len(insertLog') = Len(insertLog) + 1
       /\ insertLog'[Len(insertLog')] \in cacheKeys(captionsCache))
        => cacheKeys(captionsCache') = cacheKeys(captionsCache) ]_vars

\* C39: in every reachable state, currentCaptions is present only if
\* currentVideoId is present.
C39_CaptionsOnlyWithVideo ==
  Truthy(currentCaptions) => Truthy(currentVideoId)

====
